---------------------------- MODULE Spec2Model ----------------------------
(***************************************************************************)
(* Stream metrics accounting of the Parseable server (src/src/stats.rs)    *)
(* over a label-keyed counter registry, and the OTLP severity name lookup  *)
(* (src/server/src/handlers/http/otel/log.rs).                             *)
(***************************************************************************)
EXTENDS Integers, Sequences, FiniteSets, TLC

(***************************************************************************)
(* Bounds of the model.                                                    *)
(***************************************************************************)
MaxOps == 3          \* operations of one sequential history
WordBits == 8        \* width the 64-bit counters are scaled to
MaxWrites == 2       \* calls each concurrent writer thread starts
ConcBytes == 2       \* byte size of each concurrent call
MaxDeletes == 1      \* delete_stats calls the concurrent delete thread starts
MaxSev == 40         \* severity numbers are drawn from -MaxSev .. MaxSev

Streams == {"s1"}
Formats == {"json", "csv"}
Dates == {"d1", "d2"}
Amounts == {1, 2}     \* event counts and byte sizes of one call

\* Option<T>: None, and Some(v).
None == [some |-> FALSE]

Some(v) == [some |-> TRUE, val |-> v]

(***************************************************************************)
(* Label Key Builder: stats.rs lines 121-139.                              *)
(***************************************************************************)
\* An event label tuple with the format fixed.
event_labels_fixed_format(stream_name, format) == <<stream_name, "json">>

event_labels(stream_name, format) == <<stream_name, format>>

storage_size_labels(stream_name) == <<"data", stream_name, "parquet">>

event_labels_date(stream_name, format, date) == <<stream_name, format, date>>

storage_size_labels_date(stream_name, date) ==
    <<"data", stream_name, "parquet", date>>

(***************************************************************************)
(* The twelve counter families (crate::metrics, imported at lines 18-23)   *)
(* and the number of labels each family is declared with.                  *)
(***************************************************************************)
EventFamilies ==
    {"EVENTS_INGESTED", "EVENTS_INGESTED_SIZE", "EVENTS_DELETED",
     "EVENTS_DELETED_SIZE", "LIFETIME_EVENTS_INGESTED",
     "LIFETIME_EVENTS_INGESTED_SIZE"}

StorageFamilies ==
    {"STORAGE_SIZE", "DELETED_EVENTS_STORAGE_SIZE", "LIFETIME_EVENTS_STORAGE_SIZE"}

EventDateFamilies == {"EVENTS_INGESTED_DATE", "EVENTS_INGESTED_SIZE_DATE"}

StorageDateFamilies == {"EVENTS_STORAGE_SIZE_DATE"}

Families ==
    EventFamilies \cup StorageFamilies \cup EventDateFamilies \cup StorageDateFamilies

Arity(fam) ==
    CASE fam \in EventFamilies -> 2
      [] fam \in StorageFamilies -> 3
      [] fam \in EventDateFamilies -> 3
      [] fam \in StorageDateFamilies -> 4

(***************************************************************************)
(* The registry: a function from the keys <<family, label tuple>> of the   *)
(* series that exist to their i64 values.                                  *)
(***************************************************************************)
Key(fam, labels) == <<fam, labels>>

Put(r, key, v) == [k \in DOMAIN r \cup {key} |-> IF k = key THEN v ELSE r[k]]

Drop(r, key) == [k \in DOMAIN r \ {key} |-> r[k]]

\* get_metric_with_label_values: an error for a label tuple of the wrong
\* length, otherwise the series, created with value 0 when it is absent.
GetMetricWithLabelValues(r, fam, labels) ==
    IF Len(labels) # Arity(fam)
    THEN [ok |-> FALSE, reg |-> r, val |-> 0]
    ELSE IF Key(fam, labels) \in DOMAIN r
         THEN [ok |-> TRUE, reg |-> r, val |-> r[Key(fam, labels)]]
         ELSE [ok |-> TRUE, reg |-> Put(r, Key(fam, labels), 0), val |-> 0]

\* remove_label_values: an error for a label tuple of the wrong length or for
\* a series that does not exist, otherwise the series is deleted.
RemoveLabelValues(r, fam, labels) ==
    IF Len(labels) # Arity(fam) \/ Key(fam, labels) \notin DOMAIN r
    THEN [ok |-> FALSE, reg |-> r]
    ELSE [ok |-> TRUE, reg |-> Drop(r, Key(fam, labels))]

\* with_label_values(labels).add(n) / .sub(n) of the accounting operations.
AddTo(r, fam, labels, n) ==
    LET g == GetMetricWithLabelValues(r, fam, labels)
    IN  Put(g.reg, Key(fam, labels), g.val + n)

\* `.get() as u64`: the i64 value reinterpreted as unsigned.
AsU64(v) == IF v < 0 THEN v + 2 ^ WordBits ELSE v


(***************************************************************************)
(* get_current_stats: stats.rs lines 40-98.                                *)
(***************************************************************************)
\* The nine series read, in the order of lines 44-79.
StatsReads(stream_name, format) ==
    << <<"EVENTS_INGESTED", event_labels(stream_name, format)>>,
       <<"EVENTS_INGESTED_SIZE", event_labels(stream_name, format)>>,
       <<"STORAGE_SIZE", storage_size_labels(stream_name)>>,
       <<"EVENTS_DELETED", event_labels(stream_name, format)>>,
       <<"EVENTS_DELETED_SIZE", event_labels(stream_name, format)>>,
       <<"DELETED_EVENTS_STORAGE_SIZE", storage_size_labels(stream_name)>>,
       <<"LIFETIME_EVENTS_INGESTED", event_labels(stream_name, format)>>,
       <<"LIFETIME_EVENTS_INGESTED_SIZE", event_labels(stream_name, format)>>,
       <<"LIFETIME_EVENTS_STORAGE_SIZE", storage_size_labels(stream_name)>> >>

\* `X.get_metric_with_label_values(&labels).ok()?.get() as u64`, read after
\* read: the first error ends the call, the series created so far stay.
RECURSIVE ReadFrom(_, _, _, _)
ReadFrom(r, reads, i, vals) ==
    IF i > Len(reads)
    THEN [ok |-> TRUE, reg |-> r, vals |-> vals]
    ELSE LET g == GetMetricWithLabelValues(r, reads[i][1], reads[i][2])
         IN  IF ~g.ok
             THEN [ok |-> FALSE, reg |-> g.reg, vals |-> vals]
             ELSE ReadFrom(g.reg, reads, i + 1, Append(vals, AsU64(g.val)))

\* A FullStats whose current event count is derived from the lifetime and
\* deleted counts by an unsigned subtraction.
FullStatsDerived(v) ==
    [lifetime_stats |-> [events |-> v[7], ingestion |-> v[8], storage |-> v[9]],
     current_stats |-> [events |-> (v[7] - v[4]) % 2 ^ WordBits,
                        ingestion |-> v[2], storage |-> v[3]],
     deleted_stats |-> [events |-> v[4], ingestion |-> v[5], storage |-> v[6]]]

\* Lines 81-97: the FullStats assembled from the nine values.
FullStats(v) ==
    [lifetime_stats |-> [events |-> v[7], ingestion |-> v[8], storage |-> v[9]],
     current_stats |-> [events |-> v[1], ingestion |-> v[2], storage |-> v[3]],
     deleted_stats |-> [events |-> v[4], ingestion |-> v[5], storage |-> v[6]]]

get_current_stats(r, stream_name, format) ==
    LET rd == ReadFrom(r, StatsReads(stream_name, format), 1, <<>>)
    IN  [reg |-> rd.reg,
         result |-> IF rd.ok THEN Some(FullStats(rd.vals)) ELSE None]

(***************************************************************************)
(* delete_stats: stats.rs lines 100-119.                                   *)
(***************************************************************************)
\* The removals with the storage-size series of the current tier removed
\* before its ingestion-size series.
DeleteTargetsStorageFirst(stream_name, format) ==
    << <<"EVENTS_INGESTED", event_labels(stream_name, format)>>,
       <<"STORAGE_SIZE", storage_size_labels(stream_name)>>,
       <<"EVENTS_INGESTED_SIZE", event_labels(stream_name, format)>>,
       <<"EVENTS_DELETED", event_labels(stream_name, format)>>,
       <<"EVENTS_DELETED_SIZE", event_labels(stream_name, format)>>,
       <<"DELETED_EVENTS_STORAGE_SIZE", storage_size_labels(stream_name)>>,
       <<"LIFETIME_EVENTS_INGESTED", event_labels(stream_name, format)>>,
       <<"LIFETIME_EVENTS_INGESTED_SIZE", event_labels(stream_name, format)>>,
       <<"LIFETIME_EVENTS_STORAGE_SIZE", storage_size_labels(stream_name)>>,
       <<"EVENTS_INGESTED_DATE", event_labels(stream_name, format)>>,
       <<"EVENTS_INGESTED_SIZE_DATE", event_labels(stream_name, format)>>,
       <<"EVENTS_STORAGE_SIZE_DATE", storage_size_labels(stream_name)>> >>

\* The family and label tuple of each removal, in the order of lines 104-116.
DeleteTargets(stream_name, format) ==
    << <<"EVENTS_INGESTED", event_labels(stream_name, format)>>,
       <<"EVENTS_INGESTED_SIZE", event_labels(stream_name, format)>>,
       <<"STORAGE_SIZE", storage_size_labels(stream_name)>>,
       <<"EVENTS_DELETED", event_labels(stream_name, format)>>,
       <<"EVENTS_DELETED_SIZE", event_labels(stream_name, format)>>,
       <<"DELETED_EVENTS_STORAGE_SIZE", storage_size_labels(stream_name)>>,
       <<"LIFETIME_EVENTS_INGESTED", event_labels(stream_name, format)>>,
       <<"LIFETIME_EVENTS_INGESTED_SIZE", event_labels(stream_name, format)>>,
       <<"LIFETIME_EVENTS_STORAGE_SIZE", storage_size_labels(stream_name)>>,
       <<"EVENTS_INGESTED_DATE", event_labels(stream_name, format)>>,
       <<"EVENTS_INGESTED_SIZE_DATE", event_labels(stream_name, format)>>,
       <<"EVENTS_STORAGE_SIZE_DATE", storage_size_labels(stream_name)>> >>

NumDeleteLines == Len(DeleteTargets("s1", "json"))

\* A removal that reports what remove_label_values reports and leaves the
\* series in the registry.
DeleteLineKeep(r, k, stream_name, format) ==
    LET t == DeleteTargets(stream_name, format)[k]
    IN  [ok |-> RemoveLabelValues(r, t[1], t[2]).ok, reg |-> r]

\* One line `X.remove_label_values(&labels)?` of lines 104-116.
DeleteLine(r, k, stream_name, format) ==
    LET t == DeleteTargets(stream_name, format)[k]
    IN  RemoveLabelValues(r, t[1], t[2])

\* The lines from line i on: `?` returns the first error, and the lines
\* after it are not run. removed: the keys removed; failed: the line that
\* failed (0: none).
RECURSIVE DeleteFrom(_, _, _, _, _)
DeleteFrom(r, i, stream_name, format, removed) ==
    IF i > NumDeleteLines
    THEN [ok |-> TRUE, reg |-> r, removed |-> removed, failed |-> 0]
    ELSE LET d == DeleteLine(r, i, stream_name, format)
             t == DeleteTargets(stream_name, format)[i]
         IN  IF ~d.ok
             THEN [ok |-> FALSE, reg |-> d.reg, removed |-> removed, failed |-> i]
             ELSE DeleteFrom(d.reg, i + 1, stream_name, format,
                             removed \cup {Key(t[1], t[2])})

\* A delete_stats that puts the registry back as it was when a removal fails.
delete_stats_rollback(r, stream_name, format) ==
    LET d == DeleteFrom(r, 1, stream_name, format, {})
    IN  IF d.ok THEN d ELSE [d EXCEPT !.reg = r]

delete_stats(r, stream_name, format) == DeleteFrom(r, 1, stream_name, format, {})


(***************************************************************************)
(* The accounting operations that write the counters (the Stream Metrics   *)
(* Accounting Manager's recordIngest and recordDeletion, and the storage   *)
(* accounting of the storage-bytes families).                              *)
(***************************************************************************)
\* recordIngest: the series incremented and by how much, in order.
IngestAdds(stream_name, format, date, bytes) ==
    << <<"EVENTS_INGESTED", event_labels(stream_name, format), 1>>,
       <<"EVENTS_INGESTED_SIZE", event_labels(stream_name, format), bytes>>,
       <<"LIFETIME_EVENTS_INGESTED", event_labels(stream_name, format), 1>>,
       <<"LIFETIME_EVENTS_INGESTED_SIZE", event_labels(stream_name, format), bytes>>,
       <<"EVENTS_INGESTED_DATE", event_labels_date(stream_name, format, date), 1>>,
       <<"EVENTS_INGESTED_SIZE_DATE", event_labels_date(stream_name, format, date),
         bytes>> >>

\* The storage-bytes families incremented when bytes reach storage.
StorageAdds(stream_name, date, bytes) ==
    << <<"STORAGE_SIZE", storage_size_labels(stream_name), bytes>>,
       <<"LIFETIME_EVENTS_STORAGE_SIZE", storage_size_labels(stream_name), bytes>>,
       <<"EVENTS_STORAGE_SIZE_DATE", storage_size_labels_date(stream_name, date),
         bytes>> >>

RECURSIVE ApplyAdds(_, _, _)
ApplyAdds(r, adds, i) ==
    IF i > Len(adds)
    THEN r
    ELSE ApplyAdds(AddTo(r, adds[i][1], adds[i][2], adds[i][3]), adds, i + 1)

record_ingest(r, stream_name, format, date, bytes) ==
    ApplyAdds(r, IngestAdds(stream_name, format, date, bytes), 1)

record_storage(r, stream_name, date, bytes) ==
    ApplyAdds(r, StorageAdds(stream_name, date, bytes), 1)

\* The decrement of a current counter: clamped at zero, the clamping
\* reported as drift.
SubClamped(r, fam, labels, n) ==
    LET g == GetMetricWithLabelValues(r, fam, labels)
    IN  [reg |-> Put(g.reg, Key(fam, labels), IF g.val < n THEN 0 ELSE g.val - n),
         drift |-> g.val < n]

\* recordDeletion: deleted-events and deleted-bytes incremented, current-events
\* and current storage bytes decremented.
record_deletion(r, stream_name, format, events, bytes) ==
    LET r1 == AddTo(r, "EVENTS_DELETED", event_labels(stream_name, format), events)
        r2 == AddTo(r1, "DELETED_EVENTS_STORAGE_SIZE",
                    storage_size_labels(stream_name), bytes)
        e == SubClamped(r2, "EVENTS_INGESTED", event_labels(stream_name, format),
                        events)
        b == SubClamped(e.reg, "STORAGE_SIZE", storage_size_labels(stream_name),
                        bytes)
    IN  [reg |-> b.reg, drift |-> [events |-> e.drift, storage |-> b.drift]]

(***************************************************************************)
(* State.                                                                  *)
(***************************************************************************)
VARIABLES
    reg,        \* the registry
    nops,       \* operations run so far in the sequential history
    last,       \* the operation that ran last: [op, stream, format]
    prev,       \* the operation before it
    getResult,  \* what the last get_current_stats returned (None otherwise)
    getAbsent,  \* whether one of its nine series was absent when it was called
    delResult,  \* what the last delete_stats returned (NoDelete otherwise)
    regBefore,  \* the registry the last delete_stats was called on
    drift,      \* the drift reported by a recordDeletion that ran last, or just
                \* before a get_current_stats that ran last
    dpc,        \* delete thread: the line of lines 104-116 it is at (0: idle)
    dargs,      \* delete thread: its (stream, format)
    ndel,       \* delete_stats calls started by the delete thread
    wq,         \* writer threads: the increments each has left to do
    wh,         \* writer threads: the handle each holds (none, live, orphan)
    nwr,        \* calls started by each writer thread
    removed,    \* per key the delete thread has removed: the value it held
                \* (gone) and the increments issued since (since)
    sev,        \* a severity number
    sevName     \* the name as_str_name gave it (NoResult before)

seqVars == <<reg, nops, last, prev, getResult, getAbsent, delResult, regBefore, drift>>
concVars == <<dpc, dargs, ndel, wq, wh, nwr, removed>>
sevVars == <<sev, sevName>>
vars == <<seqVars, concVars, sevVars>>

NoResult == "NoResult"
NoOp == [op |-> "none", stream |-> "", format |-> ""]
NoDelete == [ok |-> TRUE, removed |-> {}, failed |-> 0]
NoDrift == [events |-> FALSE, storage |-> FALSE]
Writers == {"ingest", "storage"}
ConcStream == "s1"
ConcFormat == "json"
ConcDate == "d1"

InitSeq ==
    /\ reg = <<>>
    /\ nops = 0
    /\ last = NoOp
    /\ prev = NoOp
    /\ getResult = None
    /\ getAbsent = FALSE
    /\ delResult = NoDelete
    /\ regBefore = <<>>
    /\ drift = NoDrift

InitConc ==
    /\ dpc = 0
    /\ dargs = <<"", "">>
    /\ ndel = 0
    /\ wq = [w \in Writers |-> <<>>]
    /\ wh = [w \in Writers |-> "none"]
    /\ nwr = [w \in Writers |-> 0]
    /\ removed = <<>>

InitSev ==
    /\ sev = 0
    /\ sevName = NoResult

Init == InitSeq /\ InitConc /\ InitSev

(***************************************************************************)
(* Sequential histories: each operation runs alone, from call to return.   *)
(***************************************************************************)
Ran(op, stream_name, format) ==
    /\ nops < MaxOps
    /\ nops' = nops + 1
    /\ prev' = last
    /\ last' = [op |-> op, stream |-> stream_name, format |-> format]

RecordIngest(stream_name, format, date, bytes) ==
    /\ Ran("ingest", stream_name, format)
    /\ reg' = record_ingest(reg, stream_name, format, date, bytes)
    /\ getResult' = None /\ getAbsent' = FALSE
    /\ delResult' = NoDelete /\ regBefore' = <<>>
    /\ drift' = NoDrift
    /\ UNCHANGED <<concVars, sevVars>>

RecordStorage(stream_name, date, bytes) ==
    /\ Ran("storage", stream_name, "")
    /\ reg' = record_storage(reg, stream_name, date, bytes)
    /\ getResult' = None /\ getAbsent' = FALSE
    /\ delResult' = NoDelete /\ regBefore' = <<>>
    /\ drift' = NoDrift
    /\ UNCHANGED <<concVars, sevVars>>

RecordDeletion(stream_name, format, events, bytes) ==
    /\ Ran("deletion", stream_name, format)
    /\ LET d == record_deletion(reg, stream_name, format, events, bytes)
       IN  reg' = d.reg /\ drift' = d.drift
    /\ getResult' = None /\ getAbsent' = FALSE
    /\ delResult' = NoDelete /\ regBefore' = <<>>
    /\ UNCHANGED <<concVars, sevVars>>

GetCurrentStats(stream_name, format) ==
    /\ Ran("get", stream_name, format)
    /\ LET g == get_current_stats(reg, stream_name, format)
       IN  reg' = g.reg /\ getResult' = g.result
    /\ getAbsent' = (\E i \in 1 .. Len(StatsReads(stream_name, format)) :
                        LET t == StatsReads(stream_name, format)[i]
                        IN  Key(t[1], t[2]) \notin DOMAIN reg)
    /\ delResult' = NoDelete /\ regBefore' = <<>>
    /\ drift' = drift
    /\ UNCHANGED <<concVars, sevVars>>

DeleteStats(stream_name, format) ==
    /\ Ran("delete", stream_name, format)
    /\ LET d == delete_stats(reg, stream_name, format)
       IN  /\ reg' = d.reg
           /\ delResult' = [ok |-> d.ok, removed |-> d.removed, failed |-> d.failed]
    /\ regBefore' = reg
    /\ getResult' = None /\ getAbsent' = FALSE
    /\ drift' = NoDrift
    /\ UNCHANGED <<concVars, sevVars>>

Next ==
    \/ \E s \in Streams, f \in Formats, d \in Dates, b \in Amounts :
          RecordIngest(s, f, d, b)
    \/ \E s \in Streams, d \in Dates, b \in Amounts : RecordStorage(s, d, b)
    \/ \E s \in Streams, f \in Formats, e \in Amounts, b \in Amounts :
          RecordDeletion(s, f, e, b)
    \/ \E s \in Streams, f \in Formats : GetCurrentStats(s, f)
    \/ \E s \in Streams, f \in Formats : DeleteStats(s, f)

Spec == Init /\ [][Next]_vars


(***************************************************************************)
(* Properties of sequential histories (specification Spec).                *)
(***************************************************************************)
\* The keys of the nine non-date-partitioned series of (stream, format).
StatsKeys(stream_name, format) ==
    {Key(StatsReads(stream_name, format)[i][1], StatsReads(stream_name, format)[i][2]) :
        i \in 1 .. Len(StatsReads(stream_name, format))}

\* The keys of the date-partitioned series of (stream, format).
DateKeys(stream_name, format) ==
    {Key(fam, event_labels_date(stream_name, format, d)) :
        fam \in EventDateFamilies, d \in Dates}
    \cup {Key(fam, storage_size_labels_date(stream_name, d)) :
            fam \in StorageDateFamilies, d \in Dates}

SameSeries(key) ==
    /\ key \in DOMAIN regBefore <=> key \in DOMAIN reg
    /\ key \in DOMAIN reg => reg[key] = regBefore[key]

GetAfterDelete ==
    /\ last.op = "get"
    /\ prev.op = "delete"
    /\ prev.stream = last.stream
    /\ prev.format = last.format

\* C1: delete_stats(stream, format) followed by get_current_stats(stream,
\* format), with nothing in between, returns None, whatever ingests and
\* deletions came before.
C1_DeleteThenGetIsNone == GetAfterDelete => ~getResult.some

\* C2: after delete_stats(stream, format) no series of the twelve families
\* remains for the stream: neither one of the nine non-date series nor a
\* date-partitioned series of any date.
C2_DeleteRemovesEverySeries ==
    last.op = "delete" =>
        \A key \in StatsKeys(last.stream, last.format)
                     \cup DateKeys(last.stream, last.format) :
            key \notin DOMAIN reg

\* C3: delete_stats attempts every removal on its own: a series of one of its
\* twelve removals that was in the registry, under a label tuple the registry
\* accepts, is gone afterwards even when another removal was rejected.
C3_EveryRemovalAttempted ==
    last.op = "delete" =>
        \A i \in 1 .. NumDeleteLines :
            LET t == DeleteTargets(last.stream, last.format)[i]
            IN  RemoveLabelValues(regBefore, t[1], t[2]).ok
                    => Key(t[1], t[2]) \notin DOMAIN reg

\* C4: get_current_stats returns None exactly when one of the nine non-date
\* series was absent when it was called, and Some only when all nine were
\* present.
C4_NoneIffSeriesAbsent ==
    last.op = "get" => (getResult = None <=> getAbsent)

DeletionThenGet ==
    /\ last.op = "get"
    /\ prev.op = "deletion"
    /\ prev.stream = last.stream
    /\ getResult.some

C8_CompletedRemovalsStay ==
    (last.op = "delete" /\ ~delResult.ok) =>
        \A i \in 1 .. delResult.failed - 1 :
            LET t == DeleteTargets(last.stream, last.format)[i]
            IN  /\ Key(t[1], t[2]) \in DOMAIN regBefore
                /\ Key(t[1], t[2]) \notin DOMAIN reg

C8_Witness ==
    /\ last.op = "delete"
    /\ ~delResult.ok
    /\ delResult.failed > 3
    /\ \E key \in delResult.removed : regBefore[key] > 0

\* C10: the label builders return (stream, format), (stream, format, date),
\* ("data", stream, "parquet") and ("data", stream, "parquet", date), and
\* every removal delete_stats makes addresses its family with a tuple of the
\* family's own length.
C10_FamiliesAddressedByOwnShape ==
    /\ \A s \in Streams, f \in Formats, d \in Dates :
          /\ event_labels(s, f) = <<s, f>>
          /\ event_labels_date(s, f, d) = <<s, f, d>>
          /\ storage_size_labels(s) = <<"data", s, "parquet">>
          /\ storage_size_labels_date(s, d) = <<"data", s, "parquet", d>>
    /\ last.op = "get" =>
          \A i \in 1 .. Len(StatsReads(last.stream, last.format)) :
              LET t == StatsReads(last.stream, last.format)[i]
              IN  Len(t[2]) = Arity(t[1])
    /\ last.op = "delete" =>
          \A i \in 1 .. (IF delResult.ok THEN NumDeleteLines ELSE delResult.failed) :
              LET t == DeleteTargets(last.stream, last.format)[i]
              IN  Len(t[2]) = Arity(t[1])


(***************************************************************************)
(* delete_stats running concurrently with the writers (specification       *)
(* SpecConc). The delete thread runs lines 104-116 one removal at a time;  *)
(* a writer thread runs its increments one at a time, each in two steps:   *)
(* with_label_values hands out the series (creating it), add increments    *)
(* the series handed out. A series removed in between is no longer the     *)
(* registry's: the increment of the handle held is lost with it.           *)
(***************************************************************************)
DeleteBegin(stream_name, format) ==
    /\ dpc = 0
    /\ ndel < MaxDeletes
    /\ dpc' = 1
    /\ dargs' = <<stream_name, format>>
    /\ ndel' = ndel + 1
    /\ UNCHANGED <<seqVars, wq, wh, nwr, removed, sevVars>>

DeleteStep ==
    /\ dpc \in 1 .. NumDeleteLines
    /\ LET d == DeleteLine(reg, dpc, dargs[1], dargs[2])
           t == DeleteTargets(dargs[1], dargs[2])[dpc]
           key == Key(t[1], t[2])
       IN  IF d.ok
           THEN /\ reg' = d.reg
                /\ removed' = Put(removed, key, [gone |-> reg[key], since |-> 0])
                /\ wh' = [w \in Writers |->
                            IF wh[w] = "live" /\ Key(wq[w][1][1], wq[w][1][2]) = key
                            THEN "orphan" ELSE wh[w]]
                /\ dpc' = IF dpc = NumDeleteLines THEN 0 ELSE dpc + 1
           ELSE /\ reg' = d.reg
                /\ dpc' = 0
                /\ UNCHANGED <<removed, wh>>
    /\ UNCHANGED <<nops, last, prev, getResult, getAbsent, delResult, regBefore,
                   drift, dargs, ndel, wq, nwr, sevVars>>

WriterBegin(w, adds) ==
    /\ wq[w] = <<>>
    /\ nwr[w] < MaxWrites
    /\ wq' = [wq EXCEPT ![w] = adds]
    /\ nwr' = [nwr EXCEPT ![w] = @ + 1]
    /\ UNCHANGED <<seqVars, dpc, dargs, ndel, wh, removed, sevVars>>

IngestBegin(stream_name, format, date, bytes) ==
    WriterBegin("ingest", IngestAdds(stream_name, format, date, bytes))

StorageBegin(stream_name, date, bytes) ==
    WriterBegin("storage", StorageAdds(stream_name, date, bytes))

WriterAcquire(w) ==
    /\ wq[w] # <<>>
    /\ wh[w] = "none"
    /\ reg' = GetMetricWithLabelValues(reg, wq[w][1][1], wq[w][1][2]).reg
    /\ wh' = [wh EXCEPT ![w] = "live"]
    /\ UNCHANGED <<nops, last, prev, getResult, getAbsent, delResult, regBefore,
                   drift, dpc, dargs, ndel, wq, nwr, removed, sevVars>>

WriterAdd(w) ==
    /\ wq[w] # <<>>
    /\ wh[w] \in {"live", "orphan"}
    /\ LET key == Key(wq[w][1][1], wq[w][1][2])
           n == wq[w][1][3]
       IN  /\ reg' = IF wh[w] = "live" THEN Put(reg, key, reg[key] + n) ELSE reg
           /\ removed' = IF key \in DOMAIN removed
                         THEN [removed EXCEPT ![key].since = @ + n]
                         ELSE removed
    /\ wq' = [wq EXCEPT ![w] = Tail(@)]
    /\ wh' = [wh EXCEPT ![w] = "none"]
    /\ UNCHANGED <<nops, last, prev, getResult, getAbsent, delResult, regBefore,
                   drift, dpc, dargs, ndel, nwr, sevVars>>

\* The concurrent calls are all for one stream, format, date and byte size.
NextConc ==
    \/ DeleteBegin(ConcStream, ConcFormat)
    \/ DeleteStep
    \/ IngestBegin(ConcStream, ConcFormat, ConcDate, ConcBytes)
    \/ StorageBegin(ConcStream, ConcDate, ConcBytes)
    \/ \E w \in Writers : WriterAcquire(w)
    \/ \E w \in Writers : WriterAdd(w)

SpecConc == Init /\ [][NextConc]_vars

SeverityNames ==
    <<"SEVERITY_NUMBER_TRACE", "SEVERITY_NUMBER_TRACE2", "SEVERITY_NUMBER_TRACE3",
      "SEVERITY_NUMBER_TRACE4", "SEVERITY_NUMBER_DEBUG", "SEVERITY_NUMBER_DEBUG2",
      "SEVERITY_NUMBER_DEBUG3", "SEVERITY_NUMBER_DEBUG4", "SEVERITY_NUMBER_INFO",
      "SEVERITY_NUMBER_INFO2", "SEVERITY_NUMBER_INFO3", "SEVERITY_NUMBER_INFO4",
      "SEVERITY_NUMBER_WARN", "SEVERITY_NUMBER_WARN2", "SEVERITY_NUMBER_WARN3",
      "SEVERITY_NUMBER_WARN4", "SEVERITY_NUMBER_ERROR", "SEVERITY_NUMBER_ERROR2",
      "SEVERITY_NUMBER_ERROR3", "SEVERITY_NUMBER_ERROR4", "SEVERITY_NUMBER_FATAL",
      "SEVERITY_NUMBER_FATAL2", "SEVERITY_NUMBER_FATAL3", "SEVERITY_NUMBER_FATAL4">>

\* An as_str_name whose catch-all arm gives the name of 0.
as_str_name_unspecified_catch_all(severity_number) ==
    IF severity_number \in 1 .. Len(SeverityNames)
    THEN SeverityNames[severity_number]
    ELSE "SEVERITY_NUMBER_UNSPECIFIED"

as_str_name(severity_number) ==
    IF severity_number = 0
    THEN "SEVERITY_NUMBER_UNSPECIFIED"
    ELSE IF severity_number \in 1 .. Len(SeverityNames)
         THEN SeverityNames[severity_number]
         ELSE "Invalid severity number"

InitSevAny ==
    /\ InitSeq
    /\ InitConc
    /\ sev \in -MaxSev .. MaxSev
    /\ sevName = NoResult

AsStrName ==
    /\ sevName = NoResult
    /\ sevName' = as_str_name(sev)
    /\ UNCHANGED <<seqVars, concVars, sev>>

NextSev == AsStrName

SpecSev == InitSevAny /\ [][NextSev]_vars

FamilyKind(fam) ==
    CASE fam \in {"EVENTS_INGESTED", "EVENTS_DELETED", "LIFETIME_EVENTS_INGESTED",
                  "EVENTS_INGESTED_DATE"} -> "events"
      [] fam \in {"EVENTS_INGESTED_SIZE", "EVENTS_DELETED_SIZE",
                  "LIFETIME_EVENTS_INGESTED_SIZE", "EVENTS_INGESTED_SIZE_DATE"}
            -> "ingestion"
      [] fam \in {"STORAGE_SIZE", "DELETED_EVENTS_STORAGE_SIZE",
                  "LIFETIME_EVENTS_STORAGE_SIZE", "EVENTS_STORAGE_SIZE_DATE"}
            -> "storage"

\* The tier of each family: current_stats, deleted_stats, lifetime_stats of
\* FullStats (lines 81-97), or date-partitioned.
FamilyTier(fam) ==
    CASE fam \in {"EVENTS_INGESTED", "EVENTS_INGESTED_SIZE", "STORAGE_SIZE"}
            -> "current"
      [] fam \in {"EVENTS_DELETED", "EVENTS_DELETED_SIZE",
                  "DELETED_EVENTS_STORAGE_SIZE"} -> "deleted"
      [] fam \in {"LIFETIME_EVENTS_INGESTED", "LIFETIME_EVENTS_INGESTED_SIZE",
                  "LIFETIME_EVENTS_STORAGE_SIZE"} -> "lifetime"
      [] fam \in EventDateFamilies \cup StorageDateFamilies -> "date"

KindOrder == <<"events", "ingestion", "storage">>

\* The removals the last delete_stats ran: up to the one that failed.
Attempted ==
    SubSeq(DeleteTargets(last.stream, last.format), 1,
           IF delResult.ok THEN NumDeleteLines ELSE delResult.failed)

\* The family of the given tier and kind that the last delete_stats removed.
RemovedOf(tier, kind) ==
    \E key \in delResult.removed :
        FamilyTier(key[1]) = tier /\ FamilyKind(key[1]) = kind

\* C11: delete_stats removes in a fixed order: the removals come in groups of
\* three of one tier, events series, then ingestion-size series, then
\* storage-size series; a series is removed only after those before it in
\* its tier; and a date-partitioned series is attempted only after the nine
\* non-date-partitioned series were removed.
C11_RemovalOrder ==
    last.op = "delete" =>
        /\ \A i \in 1 .. Len(Attempted) :
              /\ FamilyKind(Attempted[i][1]) = KindOrder[((i - 1) % 3) + 1]
              /\ FamilyTier(Attempted[i][1])
                    = FamilyTier(Attempted[i - ((i - 1) % 3)][1])
              /\ FamilyTier(Attempted[i][1]) = "date" =>
                    /\ Cardinality(delResult.removed) >= 9
                    /\ StatsKeys(last.stream, last.format) \subseteq delResult.removed
                    /\ \A j \in 1 .. i - 1 :
                          FamilyTier(Attempted[j][1]) # "date" =>
                              Key(Attempted[j][1], Attempted[j][2])
                                  \notin DOMAIN reg
        /\ \A tier \in {"current", "deleted", "lifetime", "date"} :
              /\ RemovedOf(tier, "storage") => RemovedOf(tier, "ingestion")
              /\ RemovedOf(tier, "ingestion") => RemovedOf(tier, "events")
        /\ \A key \in delResult.removed :
              key \in DOMAIN regBefore /\ key \notin DOMAIN reg

C11_Witness ==
    /\ last.op = "delete"
    /\ Len(Attempted) > 9
    /\ FamilyTier(Attempted[Len(Attempted)][1]) = "date"
    /\ Cardinality(delResult.removed) = 9
    /\ \E key \in delResult.removed : regBefore[key] > 0

=============================================================================
